---------------------------- MODULE Spec2Model ----------------------------
(***************************************************************************)
(* A model of assignment3.py, the Streamlit dashboard "Parks Distribution  *)
(* and Conditions in Lebanon": load_data, build_geo_mappings and the       *)
(* script pass that every widget interaction re-runs (filter, KPIs, the    *)
(* governorate ranking and the park-condition breakdown).                  *)
(*                                                                         *)
(* Python strings are sequences of one-character strings, so that rsplit,  *)
(* replace, strip and the substring tests are computed and not assumed.    *)
(* A numeric cell holds its value in halves (h = 3 is 1.5): the fractions  *)
(* the model draws are multiples of one half.                              *)
(***************************************************************************)
EXTENDS Integers, Sequences, FiniteSets, TLC

VARIABLES
    csv_exists,   \* Path("Parks Data.csv").exists()
    cols,         \* the header of the CSV, trimmed and renamed (lines 21-32)
    raw,          \* the rows pd.read_csv returns
    pc,           \* where the script is
    df,           \* the Enriched Record set load_data returns
    towns_map,    \* build_geo_mappings' first result
    ALL_GOVS,     \* build_geo_mappings' second result
    level,        \* st.radio "Administrative level"
    sel_areas,    \* st.multiselect "Areas"
    norm_pct,     \* st.toggle "Normalize park condition bars to %"
    out,          \* what the last pass of the script rendered
    arg,          \* the argument of a helper applied on its own
    ret,          \* its result
    applied       \* whether the helper was applied

vars == <<csv_exists, cols, raw, pc, df, towns_map, ALL_GOVS, level,
          sel_areas, norm_pct, out, arg, ret, applied>>

pipeVars == <<csv_exists, cols, raw, pc, df, towns_map, ALL_GOVS, level,
              sel_areas, norm_pct, out>>

helperVars == <<arg, ret, applied>>

----------------------------------------------------------------------------
(* Bounds of the model *)

\* rows of the input table
MaxRows == 2
\* tokens of a raw area reference given to the Area Parser on its own
MaxTokens == 3
\* largest flag value given to tri_label on its own
MaxFlag == 3
\* largest numerator (in absolute value) given to safe_pct
MaxN == 4
\* largest denominator given to safe_pct
MaxD == 4
\* largest condition-flag sum (in absolute value) of a normalized group
MaxSum == 2

----------------------------------------------------------------------------
(* Python str *)

\* The characters the model uses, in code point order.
CharOrder ==
    <<" ", ",", "-", ".", "/", "0", "1", "2", "5", "A", "B", "D", "G", "L",
      "N", "Z", "_", "a", "b", "c", "e", "i", "n", "o", "r", "s", "t", "v", "x">>

Ord(c) == CHOOSE i \in 1..Len(CharOrder) : CharOrder[i] = c

\* str.__lt__: lexicographic by code point
RECURSIVE StrLess(_, _)
StrLess(a, b) ==
    IF b = <<>> THEN FALSE
    ELSE IF a = <<>> THEN TRUE
    ELSE IF Head(a) = Head(b) THEN StrLess(Tail(a), Tail(b))
    ELSE Ord(Head(a)) < Ord(Head(b))

StartsWith(s, w) == Len(s) >= Len(w) /\ SubSeq(s, 1, Len(w)) = w

\* w in s
RECURSIVE Contains(_, _)
Contains(s, w) ==
    IF Len(s) < Len(w) THEN FALSE
    ELSE IF StartsWith(s, w) THEN TRUE
    ELSE Contains(Tail(s), w)

\* s.replace(old, new): the non-overlapping occurrences, left to right
RECURSIVE Replace(_, _, _)
Replace(s, old, new) ==
    IF s = <<>> THEN <<>>
    ELSE IF StartsWith(s, old)
         THEN new \o Replace(SubSeq(s, Len(old) + 1, Len(s)), old, new)
         ELSE <<Head(s)>> \o Replace(Tail(s), old, new)

\* s.rsplit(sep, 1)[-1]: what follows the last sep, or s when it has none
RECURSIVE RSplitLast(_, _)
RSplitLast(s, sep) ==
    IF s = <<>> THEN <<>>
    ELSE IF s[Len(s)] = sep THEN <<>>
    ELSE RSplitLast(SubSeq(s, 1, Len(s) - 1), sep) \o <<s[Len(s)]>>

RECURSIVE LStrip(_)
LStrip(s) == IF s # <<>> /\ Head(s) = " " THEN LStrip(Tail(s)) ELSE s

RECURSIVE RStrip(_)
RStrip(s) ==
    IF s # <<>> /\ s[Len(s)] = " " THEN RStrip(SubSeq(s, 1, Len(s) - 1)) ELSE s

\* s.strip()
Strip(s) == RStrip(LStrip(s))

GovernorateW == <<"G", "o", "v", "e", "r", "n", "o", "r", "a", "t", "e">>
DistrictW == <<"D", "i", "s", "t", "r", "i", "c", "t">>
DistrictLebanonW == DistrictW \o <<",", " ", "L", "e", "b", "a", "n", "o", "n">>

----------------------------------------------------------------------------
(* Cells of a table: a str, a number (in halves), NaN, or no such column *)

StrCell(s) == [k |-> "str", s |-> s, h |-> 0]
NumCell(h) == [k |-> "num", s |-> <<>>, h |-> h]
NaNCell == [k |-> "nan", s |-> <<>>, h |-> 0]
NoCell == [k |-> "absent", s |-> <<>>, h |-> 0]

IsStr(c) == c.k = "str"
NotNa(c) == c.k # "nan"

----------------------------------------------------------------------------
(* load_data's helpers *)

\* area_label: the last path segment, underscores as spaces
area_label(u) ==
    IF ~IsStr(u) THEN u
    ELSE StrCell(Replace(RSplitLast(u.s, "/"), <<"_">>, <<" ">>))

\* the two tests of level_from_area in the other order
level_district_first(c) ==
    IF IsStr(c)
    THEN IF Contains(c.s, DistrictW) THEN "District"
         ELSE IF Contains(c.s, GovernorateW) THEN "Governorate"
         ELSE "Other"
    ELSE "Other"

level_from_area(c) ==
    IF IsStr(c)
    THEN IF Contains(c.s, GovernorateW) THEN "Governorate"
         ELSE IF Contains(c.s, DistrictW) THEN "District"
         ELSE "Other"
    ELSE "Other"

\* area_core: the level words removed, then stripped
area_core(c) ==
    IF ~IsStr(c) THEN c
    ELSE StrCell(Strip(Replace(Replace(Replace(c.s, GovernorateW, <<>>),
                                       DistrictLebanonW, <<>>),
                               DistrictW, <<>>)))

Labels == <<"Bad", "Acceptable", "Good">>

\* max(vals, key=vals.get) over the dict's keys in insertion order: a later
\* key replaces the best one only when its value is strictly larger
RECURSIVE MaxKey(_, _, _)
MaxKey(vals, i, best) ==
    IF i > Len(Labels) THEN best
    ELSE MaxKey(vals, i + 1, IF vals[Labels[i]] > vals[best] THEN Labels[i] ELSE best)

\* the same scan keeping the last of equal values
RECURSIVE MaxKeyLast(_, _, _)
MaxKeyLast(vals, i, best) ==
    IF i > Len(Labels) THEN best
    ELSE MaxKeyLast(vals, i + 1,
                    IF vals[Labels[i]] >= vals[best] THEN Labels[i] ELSE best)

tri_label_last_max(bad, ok, good) ==
    LET vals == [l \in {"Bad", "Acceptable", "Good"} |->
                    IF l = "Bad" THEN bad ELSE IF l = "Acceptable" THEN ok ELSE good]
        label == MaxKeyLast(vals, 2, Labels[1])
    IN  IF vals[label] > 0 THEN label ELSE "Unknown"

tri_label(bad, ok, good) ==
    LET vals == [l \in {"Bad", "Acceptable", "Good"} |->
                    IF l = "Bad" THEN bad ELSE IF l = "Acceptable" THEN ok ELSE good]
        label == MaxKey(vals, 2, Labels[1])
    IN  IF vals[label] > 0 THEN label ELSE "Unknown"

----------------------------------------------------------------------------
(* Rounding and safe_pct *)

\* round half to even of num/den, den # 0
RoundHalfEven(num, den) ==
    LET n == IF den < 0 THEN -num ELSE num
        d == IF den < 0 THEN -den ELSE den
        q == n \div d
        r == n % d
    IN  IF 2 * r < d THEN q
        ELSE IF 2 * r > d THEN q + 1
        ELSE IF q % 2 = 0 THEN q ELSE q + 1

\* safe_pct without its guard: a zero denominator reaches the division and
\* no percentage is returned (-1 stands for the ZeroDivisionError)
safe_pct_unguarded(n, d) ==
    IF d = 0 THEN -1 ELSE RoundHalfEven(1000 * n, d)

\* safe_pct, in tenths of a percent: round(100.0 * n / d, 1)
safe_pct(n, d) ==
    IF d = 0 THEN 0 ELSE RoundHalfEven(1000 * n, d)

\* Series.replace(0, 1) on the denominators
ReplaceZero(d) == IF d = 0 THEN 1 ELSE d

\* (long["count"] / denom * 100).round(2), in hundredths of a percent
NormValue(count, total) == RoundHalfEven(10000 * count, ReplaceZero(total))

----------------------------------------------------------------------------
(* The input table *)

FlagCols ==
    <<"parks_bad", "parks_acceptable", "parks_good",
      "light_bad", "light_acceptable", "light_good", "parks_exist">>

FlagSet == { FlagCols[i] : i \in 1..Len(FlagCols) }

ParkTriple == <<"parks_bad", "parks_acceptable", "parks_good">>
LightTriple == <<"light_bad", "light_acceptable", "light_good">>

AllCols == {"refArea", "Town"} \cup FlagSet

\* refArea values: two governorates and a district
RefAreas ==
    { <<"r", "/", "B", "_">> \o GovernorateW,
      <<"r", "/", "N", "_">> \o GovernorateW,
      <<"r", "/", "Z", "_">> \o DistrictW \o <<",", "_", "L", "e", "b", "a", "n", "o", "n">> }

Towns == { <<"a">>, <<"b">> }

\* The seven flag cells of a row, as read_csv gives them: clean 0/1 numbers,
\* numeric strings beside an unparseable one and an empty cell, and numbers
\* no survey flag should hold (2, -1, -1.5).
Profiles ==
    { [parks_bad |-> NumCell(0), parks_acceptable |-> NumCell(0), parks_good |-> NumCell(0),
       light_bad |-> NumCell(0), light_acceptable |-> NumCell(0), light_good |-> NumCell(0),
       parks_exist |-> NumCell(0)],
      [parks_bad |-> NumCell(0), parks_acceptable |-> NumCell(0), parks_good |-> NumCell(2),
       light_bad |-> NumCell(0), light_acceptable |-> NumCell(2), light_good |-> NumCell(0),
       parks_exist |-> NumCell(2)],
      [parks_bad |-> StrCell(<<"2">>), parks_acceptable |-> NaNCell, parks_good |-> NumCell(3),
       light_bad |-> StrCell(<<"x">>), light_acceptable |-> StrCell(<<"1", ".", "5">>),
       light_good |-> StrCell(<<"1">>),
       parks_exist |-> StrCell(<<"1">>)],
      [parks_bad |-> NumCell(-2), parks_acceptable |-> NumCell(0), parks_good |-> NumCell(2),
       light_bad |-> NumCell(-3), light_acceptable |-> StrCell(<<"-", "1">>),
       light_good |-> NaNCell,
       parks_exist |-> NumCell(4)] }

RawRowOf(ref, town, p) ==
    [c \in AllCols |-> IF c = "refArea" THEN ref ELSE IF c = "Town" THEN town ELSE p[c]]

RawRow(ref, town, p) == RawRowOf(StrCell(ref), StrCell(town), p)

RawRows == { RawRow(ref, town, p) : ref \in RefAreas, town \in Towns, p \in Profiles }

Tables == UNION { [1..n -> RawRows] : n \in 0..MaxRows }

\* a table read from a CSV that lacks the columns outside cs
Project(t, cs) ==
    [i \in 1..Len(t) |-> [c \in AllCols |-> IF c \in cs THEN t[i][c] ELSE NoCell]]

\* the tables read under every header: town a in a governorate and in a
\* district; two towns of one governorate; and a table with an empty
\* refArea, an empty Town and an area that is neither level
SampleTables ==
    LET gov == CHOOSE r \in RefAreas : Contains(r, GovernorateW)
        dis == CHOOSE r \in RefAreas : Contains(r, DistrictW)
        p1 == CHOOSE p \in Profiles : p.parks_exist = NumCell(2)
        p2 == CHOOSE p \in Profiles : p.parks_exist = StrCell(<<"1">>)
    IN  { <<RawRow(gov, <<"a">>, p1), RawRow(dis, <<"a">>, p2)>>,
          <<RawRow(gov, <<"a">>, p1), RawRow(gov, <<"b">>, p2)>>,
          <<RawRow(gov, <<"a">>, p1), RawRowOf(NaNCell, StrCell(<<"b">>), p2),
            RawRowOf(StrCell(<<"r", "/", "x">>), NaNCell, p1),
            RawRowOf(StrCell(gov), NaNCell, p2)>> }

----------------------------------------------------------------------------
(* Flag Normalizer: pd.to_numeric(errors="coerce").fillna(0).astype(int) *)

Digits == {"0", "1", "2", "5"}
DigitVal(c) == IF c = "0" THEN 0 ELSE IF c = "1" THEN 1 ELSE IF c = "2" THEN 2 ELSE 5

RECURSIVE IntVal(_)
IntVal(s) == IF s = <<>> THEN 0 ELSE 10 * IntVal(SubSeq(s, 1, Len(s) - 1)) + DigitVal(s[Len(s)])

DotAt(s) == IF \E i \in 1..Len(s) : s[i] = "."
            THEN CHOOSE i \in 1..Len(s) : s[i] = "." /\ \A j \in 1..(i - 1) : s[j] # "."
            ELSE 0

\* the number a str parses to, in halves, or NaN: [-]digits[.[0|5]]
ParseNum(s) ==
    LET neg == s # <<>> /\ Head(s) = "-"
        body == IF neg THEN Tail(s) ELSE s
        dot == DotAt(body)
        ip == IF dot = 0 THEN body ELSE SubSeq(body, 1, dot - 1)
        fp == IF dot = 0 THEN <<>> ELSE SubSeq(body, dot + 1, Len(body))
        valid == /\ ip # <<>>
                 /\ \A i \in 1..Len(ip) : ip[i] \in Digits
                 /\ fp \in {<<>>, <<"0">>, <<"5">>}
        mag == 2 * IntVal(ip) + (IF fp = <<"5">> THEN 1 ELSE 0)
    IN  IF valid THEN NumCell(IF neg THEN -mag ELSE mag) ELSE NaNCell

\* pd.to_numeric(col, errors="coerce")
ToNumeric(c) ==
    IF c.k = "num" THEN c
    ELSE IF c.k = "str" THEN ParseNum(c.s)
    ELSE NaNCell

\* fillna left out
FillNaSkipped(c) == c

\* .fillna(0)
FillNa(c) == IF c.k = "nan" THEN NumCell(0) ELSE c

\* .astype(int): truncation toward zero
AsInt(c) ==
    IF c.k # "num" THEN c
    ELSE NumCell(2 * (IF c.h >= 0 THEN c.h \div 2 ELSE -((-c.h) \div 2)))

CastFlag(c) == AsInt(FillNa(ToNumeric(c)))

\* the int a cast cell holds
IntOf(c) == IF c.h >= 0 THEN c.h \div 2 ELSE -((-c.h) \div 2)

----------------------------------------------------------------------------
(* load_data *)

HasAll(cs, triple) == \A i \in 1..Len(triple) : triple[i] \in cs

Condition(r, cs, triple) ==
    IF HasAll(cs, triple)
    THEN tri_label(IntOf(r[triple[1]]), IntOf(r[triple[2]]), IntOf(r[triple[3]]))
    ELSE "Unknown"

\* one row of the Enriched Record set
Enrich(r, cs) ==
    LET area == area_label(r["refArea"])
        flags == [c \in FlagSet |-> IF c \in cs THEN CastFlag(r[c]) ELSE NoCell]
    IN  [refArea |-> r["refArea"],
         Town |-> r["Town"],
         Area |-> area,
         Level |-> level_from_area(area),
         AreaShort |-> area_core(area),
         parks_bad |-> flags["parks_bad"],
         parks_acceptable |-> flags["parks_acceptable"],
         parks_good |-> flags["parks_good"],
         light_bad |-> flags["light_bad"],
         light_acceptable |-> flags["light_acceptable"],
         light_good |-> flags["light_good"],
         parks_exist |-> flags["parks_exist"],
         park_condition |-> Condition(flags, cs, ParkTriple),
         lighting_condition |-> Condition(flags, cs, LightTriple)]

\* the refArea check with its test left out
RefAreaUnchecked(cs) == TRUE

\* line 34: "refArea" in df.columns
HasRefArea(cs) == "refArea" \in cs

NoKpi == [towns |-> 0, shown |-> FALSE, with_park |-> 0, areas |-> 0, level |-> ""]
NoRank == [kind |-> "none", rows |-> <<>>]
NoCond == [kind |-> "none", bars |-> {}, good |-> <<>>, good_pct |-> 0,
           bad |-> <<>>, bad_pct |-> 0]

Blank == [ran |-> FALSE, error |-> "", raised |-> FALSE, fdf |-> <<>>,
          kpi |-> NoKpi, rank |-> NoRank, cond |-> NoCond]

----------------------------------------------------------------------------
(* build_geo_mappings *)

Idx(q) == 1..Len(q)

RECURSIVE SumSeq(_)
SumSeq(q) == IF q = <<>> THEN 0 ELSE Head(q) + SumSeq(Tail(q))

\* the least str of a non-empty set
MinStr(S) == CHOOSE x \in S : \A y \in S \ {x} : StrLess(x, y)

\* sorted(S)
RECURSIVE SortStrs(_)
SortStrs(S) == IF S = {} THEN <<>> ELSE <<MinStr(S)>> \o SortStrs(S \ {MinStr(S)})

\* s.mode().iat[0] if not s.mode().empty else s.iloc[0], over the values vs
\* (a sequence of str): mode() lists the most frequent values sorted
ModeFirst(vs) ==
    LET count(x) == Cardinality({ i \in Idx(vs) : vs[i] = x })
        vals == { vs[i] : i \in Idx(vs) }
        modes == { x \in vals : \A y \in vals : count(y) <= count(x) }
    IN  IF modes # {} THEN MinStr(modes) ELSE vs[1]

\* the rows of d at administrative level l that name a town and an area
LevelRows(d, l) ==
    SelectSeq(d, LAMBDA r : /\ r.Level = l
                            /\ NotNa(r.AreaShort)
                            /\ ~(IsStr(r.AreaShort) /\ r.AreaShort.s = <<>>)
                            /\ NotNa(r.Town))

\* dist_series / gov_series: the towns grouped, and each town's area
SeriesKeys(d, l) == { LevelRows(d, l)[i].Town.s : i \in Idx(LevelRows(d, l)) }

SeriesAt(d, l, town) ==
    LET rows == SelectSeq(LevelRows(d, l), LAMBDA r : r.Town.s = town)
    IN  ModeFirst([i \in Idx(rows) |-> rows[i].AreaShort.s])

MaxOf(S) == CHOOSE x \in S : \A y \in S : y <= x

\* a town's indicator summed across its rows
PxSum(d, town) ==
    LET rows == SelectSeq(d, LAMBDA r : NotNa(r.Town) /\ r.Town.s = town)
    IN  SumSeq([i \in Idx(rows) |-> IntOf(rows[i].parks_exist)])

\* px_series: parks_exist per town, the max across its rows
PxSeries(d, town) ==
    LET rows == SelectSeq(d, LAMBDA r : NotNa(r.Town) /\ r.Town.s = town)
    IN  MaxOf({ IntOf(rows[i].parks_exist) : i \in Idx(rows) })

\* towns: one row per town of either series, sorted by town
TownsMap(d) ==
    LET names == SortStrs(SeriesKeys(d, "District") \cup SeriesKeys(d, "Governorate"))
    IN  [i \in Idx(names) |->
            [Town |-> names[i],
             District |-> IF names[i] \in SeriesKeys(d, "District")
                          THEN StrCell(SeriesAt(d, "District", names[i])) ELSE NaNCell,
             Governorate |-> IF names[i] \in SeriesKeys(d, "Governorate")
                             THEN StrCell(SeriesAt(d, "Governorate", names[i])) ELSE NaNCell,
             parks_exist |-> PxSeries(d, names[i])]]

\* all_governorates
AllGovernorates(d) ==
    SortStrs({ d[i].AreaShort.s : i \in { j \in Idx(d) : d[j].Level = "Governorate"
                                                        /\ IsStr(d[j].AreaShort) } })

\* lines 95 and 109 index Town and parks_exist: a KeyError without them
GeoRaises(cs) == "Town" \notin cs \/ "parks_exist" \notin cs

----------------------------------------------------------------------------
(* One pass of the script below line 122 *)

\* areas_all: the multiselect's options
areas_all(d, l) == { d[i].Area.s : i \in { j \in Idx(d) : d[j].Level = l /\ IsStr(d[j].Area) } }

\* the filter applied to df itself (no new frame)
FilterInPlace(d, l, S) ==
    LET f == SelectSeq(d, LAMBDA r : r.Level = l /\ IsStr(r.Area) /\ r.Area.s \in S)
    IN  [df |-> f, fdf |-> f]

\* line 133: fdf is a copy of the selected rows; df is left as it was
FilterCopy(d, l, S) ==
    [df |-> d,
     fdf |-> SelectSeq(d, LAMBDA r : r.Level = l /\ IsStr(r.Area) /\ r.Area.s \in S)]

\* the share computed whatever the number of rows
KpiUnguarded(f, S, l) ==
    [towns |-> Len(f), shown |-> TRUE,
     with_park |-> IF Len(f) = 0 THEN -1
                   ELSE RoundHalfEven(1000 * SumSeq([i \in Idx(f) |-> IntOf(f[i].parks_exist)]),
                                      Len(f)),
     areas |-> Cardinality(S), level |-> l]

\* lines 136-140: the four metrics; the share of towns with a park, in
\* tenths of a percent, is shown only when a row is left
Kpi(f, S, l) ==
    [towns |-> Len(f),
     shown |-> Len(f) > 0,
     with_park |-> IF Len(f) > 0
                   THEN RoundHalfEven(1000 * SumSeq([i \in Idx(f) |-> IntOf(f[i].parks_exist)]),
                                      Len(f))
                   ELSE 0,
     areas |-> Cardinality(S), level |-> l]

\* lines 156-159: the AreaShort of the selected governorate areas
SelGov(d, S) ==
    { d[i].AreaShort.s : i \in { j \in Idx(d) : /\ d[j].Level = "Governorate"
                                                /\ IsStr(d[j].Area) /\ d[j].Area.s \in S
                                                /\ IsStr(d[j].AreaShort) } }

\* the towns ranked whatever the selection
TdfUnfiltered(tm, d, l, S) == tm

\* lines 152-161: tdf, the towns the ranking is computed from
Tdf(tm, d, l, S) ==
    IF l = "Governorate" /\ SelGov(d, S) # {}
    THEN SelectSeq(tm, LAMBDA t : IsStr(t.Governorate) /\ t.Governorate.s \in SelGov(d, S))
    ELSE tm

\* lines 163-171: one row per governorate of t
GovRows(t) ==
    LET named == SelectSeq(t, LAMBDA x : IsStr(x.Governorate))
        keys == { named[i].Governorate.s : i \in Idx(named) }
        of(g) == SelectSeq(named, LAMBDA x : x.Governorate.s = g)
    IN  { [Governorate |-> g,
           towns |-> Len(of(g)),
           parks |-> SumSeq([i \in Idx(of(g)) |-> of(g)[i].parks_exist]),
           parks_pct |-> RoundHalfEven(1000 * SumSeq([i \in Idx(of(g)) |-> of(g)[i].parks_exist]),
                                       Len(of(g)))] : g \in keys }

\* line 172: by parks_pct, then towns, both descending; equal rows keep the
\* order of the groupby, which is by governorate
GovBefore(a, b) ==
    \/ a.parks_pct > b.parks_pct
    \/ a.parks_pct = b.parks_pct /\ a.towns > b.towns
    \/ a.parks_pct = b.parks_pct /\ a.towns = b.towns /\ StrLess(a.Governorate, b.Governorate)

RECURSIVE GovSorted(_)
GovSorted(S) ==
    IF S = {} THEN <<>>
    ELSE LET first == CHOOSE x \in S : \A y \in S \ {x} : GovBefore(x, y)
         IN  <<first>> \o GovSorted(S \ {first})

\* lines 151-201: the ranking, or the st.info shown in its place
Rank(tm, d, l, S, cs) ==
    IF "Town" \in cs /\ tm # <<>>
    THEN LET gov == GovRows(Tdf(tm, d, l, S))
         IN  IF gov = {} THEN [kind |-> "nodata", rows |-> <<>>]
             ELSE [kind |-> "chart", rows |-> GovSorted(gov)]
    ELSE [kind |-> "notown", rows |-> <<>>]

StateOf(c) ==
    IF c = "parks_bad" THEN "Bad" ELSE IF c = "parks_acceptable" THEN "Acceptable" ELSE "Good"

\* line 208: the park-condition columns the table has
ParksCols(cs) == SelectSeq(ParkTriple, LAMBDA c : c \in cs)

\* line 210: g, the sum of column c over the rows of area a
GroupSum(f, a, c) ==
    LET rows == SelectSeq(f, LAMBDA r : r.Area.s = a)
    IN  SumSeq([i \in Idx(rows) |-> IntOf(rows[i][c])])

GroupTotal(f, a, cs) ==
    SumSeq([i \in Idx(ParksCols(cs)) |-> GroupSum(f, a, ParksCols(cs)[i])])

\* line 235, sp: in tenths of a percent
sp(a, b) == IF b = 0 THEN 0 ELSE RoundHalfEven(1000 * a, b)

\* a1/b1 > a2/b2, for b1 and b2 not 0
RatioGreater(a1, b1, a2, b2) == (a1 * b2 - a2 * b1) * (b1 * b2) > 0

\* lines 237-238: idxmax of column c over total.replace(0, 1): the first
\* area, in the groupby's order, of the largest share
ShareArgMax(f, c, cs) ==
    LET areas == { f[i].Area.s : i \in Idx(f) }
        den(a) == ReplaceZero(GroupTotal(f, a, cs))
        gt(a, b) == RatioGreater(GroupSum(f, a, c), den(a), GroupSum(f, b, c), den(b))
    IN  CHOOSE a \in areas :
            /\ \A b \in areas : ~gt(b, a)
            /\ \A b \in areas : StrLess(b, a) => gt(a, b)

\* lines 237-238 index g["parks_good"] and g["parks_bad"]: a KeyError when
\* the chart is drawn from a table that lacks one of them
NotesRaise(f, cs) ==
    /\ ParksCols(cs) # <<>>
    /\ f # <<>>
    /\ ("parks_good" \notin cs \/ "parks_bad" \notin cs)

\* lines 208-243: the stacked bars and the notes, or the st.info shown in
\* their place. A bar's y is the count, or with the toggle on the share in
\* hundredths of a percent.
Cond(f, cs, n) ==
    IF ParksCols(cs) # <<>> /\ f # <<>>
    THEN LET areas == { f[i].Area.s : i \in Idx(f) }
             pcs == ParksCols(cs)
             bars == { [Area |-> a, state |-> StateOf(pcs[i]),
                        count |-> GroupSum(f, a, pcs[i]),
                        y |-> IF n THEN NormValue(GroupSum(f, a, pcs[i]), GroupTotal(f, a, cs))
                              ELSE GroupSum(f, a, pcs[i])] : a \in areas, i \in Idx(pcs) }
         IN  IF NotesRaise(f, cs)
             THEN [kind |-> "chart", bars |-> bars, good |-> <<>>, good_pct |-> 0,
                   bad |-> <<>>, bad_pct |-> 0]
             ELSE LET gi == ShareArgMax(f, "parks_good", cs)
                      bi == ShareArgMax(f, "parks_bad", cs)
                  IN  [kind |-> "chart", bars |-> bars,
                       good |-> gi,
                       good_pct |-> sp(GroupSum(f, gi, "parks_good"), GroupTotal(f, gi, cs)),
                       bad |-> bi,
                       bad_pct |-> sp(GroupSum(f, bi, "parks_bad"), GroupTotal(f, bi, cs))]
    ELSE [kind |-> "info", bars |-> {}, good |-> <<>>, good_pct |-> 0,
          bad |-> <<>>, bad_pct |-> 0]

\* line 138 indexes fdf["parks_exist"] when a row is left
KpiRaises(f, cs) == Len(f) > 0 /\ "parks_exist" \notin cs

\* what one pass renders: an exception ends the pass where it is raised
Pass(d, tm, l, S, n, cs) ==
    LET f == FilterCopy(d, l, S).fdf
    IN  IF KpiRaises(f, cs)
        THEN [ran |-> TRUE, error |-> "KeyError", raised |-> TRUE, fdf |-> f,
              kpi |-> NoKpi, rank |-> NoRank, cond |-> NoCond]
        ELSE [ran |-> TRUE,
              error |-> IF NotesRaise(f, cs) THEN "KeyError" ELSE "",
              raised |-> NotesRaise(f, cs),
              fdf |-> f,
              kpi |-> Kpi(f, S, l),
              rank |-> Rank(tm, d, l, S, cs),
              cond |-> Cond(f, cs, n)]

----------------------------------------------------------------------------
(* The script *)

Init ==
    /\ \/ csv_exists = TRUE /\ cols = AllCols /\ raw \in Tables
       \/ /\ csv_exists = TRUE
          /\ cols \in SUBSET AllCols
          /\ raw \in { Project(t, cols) : t \in SampleTables }
       \/ csv_exists = FALSE /\ cols = {} /\ raw = <<>>
    /\ pc = "start"
    /\ df = <<>>
    /\ towns_map = <<>>
    /\ ALL_GOVS = <<>>
    /\ level = "Governorate"
    /\ sel_areas = {}
    /\ norm_pct = FALSE
    /\ out = Blank
    /\ arg = 0
    /\ ret = 0
    /\ applied = FALSE

\* lines 13-87: st.stop() ends the script where it is called
LoadData ==
    /\ pc = "start"
    /\ IF ~csv_exists
       THEN /\ pc' = "stopped"
            /\ out' = [Blank EXCEPT !.error = "CSV not found"]
            /\ df' = df
       ELSE IF ~HasRefArea(cols)
       THEN /\ pc' = "stopped"
            /\ out' = [Blank EXCEPT !.error = "Column 'refArea' is required"]
            /\ df' = df
       ELSE /\ pc' = "loaded"
            /\ out' = out
            /\ df' = [i \in Idx(raw) |-> Enrich(raw[i], cols)]
    /\ UNCHANGED <<csv_exists, cols, raw, towns_map, ALL_GOVS, level, sel_areas,
                   norm_pct, helperVars>>

\* lines 90-122
BuildGeoMappings ==
    /\ pc = "loaded"
    /\ IF GeoRaises(cols)
       THEN /\ pc' = "raised"
            /\ out' = [Blank EXCEPT !.error = "KeyError", !.raised = TRUE]
            /\ UNCHANGED <<towns_map, ALL_GOVS>>
       ELSE /\ pc' = "mapped"
            /\ towns_map' = TownsMap(df)
            /\ ALL_GOVS' = AllGovernorates(df)
            /\ out' = out
    /\ UNCHANGED <<csv_exists, cols, raw, df, level, sel_areas, norm_pct, helperVars>>

\* lines 124-243 with the widgets at (l, S, n)
RunPass(l, S, n) ==
    /\ level' = l
    /\ sel_areas' = S
    /\ norm_pct' = n
    /\ df' = FilterCopy(df, l, S).df
    /\ out' = Pass(df, towns_map, l, S, n, cols)
    /\ UNCHANGED <<csv_exists, cols, raw, towns_map, ALL_GOVS, helperVars>>

\* the first run: the radio on Governorate, every area selected, toggle off
FirstRun ==
    /\ pc = "mapped"
    /\ pc' = "idle"
    /\ RunPass("Governorate", areas_all(df, "Governorate"), FALSE)

\* the user moves the radio: the multiselect is rebuilt with its default
SetLevel ==
    /\ pc = "idle"
    /\ pc' = pc
    /\ \E l \in {"Governorate", "District"} \ {level} :
          RunPass(l, areas_all(df, l), norm_pct)

\* the user changes the selected areas
SetAreas ==
    /\ pc = "idle"
    /\ pc' = pc
    /\ \E S \in (SUBSET areas_all(df, level)) \ {sel_areas} :
          RunPass(level, S, norm_pct)

\* the user flips the toggle
ToggleNorm ==
    /\ pc = "idle"
    /\ pc' = pc
    /\ RunPass(level, sel_areas, ~norm_pct)

Next == LoadData \/ BuildGeoMappings \/ FirstRun \/ SetLevel \/ SetAreas \/ ToggleNorm

Spec == Init /\ [][Next]_vars

----------------------------------------------------------------------------
(* The state of the script while a helper is applied on its own *)

PipeOff ==
    /\ csv_exists = FALSE
    /\ cols = {}
    /\ raw = <<>>
    /\ pc = "off"
    /\ df = <<>>
    /\ towns_map = <<>>
    /\ ALL_GOVS = <<>>
    /\ level = "Governorate"
    /\ sel_areas = {}
    /\ norm_pct = FALSE
    /\ out = Blank

----------------------------------------------------------------------------
(* tri_label applied to a flag triple *)

InitTri ==
    /\ PipeOff
    /\ arg \in [bad : 0..MaxFlag, ok : 0..MaxFlag, good : 0..MaxFlag]
    /\ ret = "none"
    /\ applied = FALSE

ApplyTri ==
    /\ ~applied
    /\ ret' = tri_label(arg.bad, arg.ok, arg.good)
    /\ applied' = TRUE
    /\ UNCHANGED <<arg, pipeVars>>

NextTri == ApplyTri

SpecTri == InitTri /\ [][NextTri]_vars

----------------------------------------------------------------------------
(* area_label and level_from_area applied to a raw area reference *)

Tokens ==
    { GovernorateW, DistrictW, <<"G", "o", "v">>,
      <<"e", "r", "n", "o", "r", "a", "t", "e">>,
      <<"/">>, <<"_">>, <<" ">>, <<"x">> }

RECURSIVE Concat(_)
Concat(ts) == IF ts = <<>> THEN <<>> ELSE Head(ts) \o Concat(Tail(ts))

RefStrings ==
    { Concat(ts) : ts \in UNION { [1..n -> Tokens] : n \in 0..MaxTokens } }

\* a refArea cell: a str, NaN (an empty cell) or a number
RefCells == { StrCell(s) : s \in RefStrings } \cup { NaNCell, NumCell(2) }

InitArea ==
    /\ PipeOff
    /\ arg \in RefCells
    /\ ret = [Area |-> NoCell, Level |-> "none"]
    /\ applied = FALSE

ApplyArea ==
    /\ ~applied
    /\ ret' = [Area |-> area_label(arg), Level |-> level_from_area(area_label(arg))]
    /\ applied' = TRUE
    /\ UNCHANGED <<arg, pipeVars>>

NextArea == ApplyArea

SpecArea == InitArea /\ [][NextArea]_vars

----------------------------------------------------------------------------
(* safe_pct applied to two numerators over one denominator, and the        *)
(* normalization of lines 214-216 applied to one group's three sums        *)

PctArgs ==
    [fn : {"safe_pct"}, n : -MaxN..MaxN, m : -MaxN..MaxN, d : 0..MaxD,
     bad : {0}, ok : {0}, good : {0}]

\* A group's sums are negative when its flags are: the cast of line 66 keeps
\* a raw -1 (Profiles holds such a row, and Spec reaches its bars).
NormArgs ==
    [fn : {"normalize"}, n : {0}, m : {0}, d : {0},
     bad : -MaxSum..MaxSum, ok : -MaxSum..MaxSum, good : -MaxSum..MaxSum]

NoPct == [pn |-> 0, pm |-> 0, Bad |-> 0, Acceptable |-> 0, Good |-> 0]

InitPct ==
    /\ PipeOff
    /\ arg \in PctArgs \cup NormArgs
    /\ ret = NoPct
    /\ applied = FALSE

ApplySafePct ==
    /\ ~applied
    /\ arg.fn = "safe_pct"
    /\ ret' = [ret EXCEPT !.pn = safe_pct(arg.n, arg.d), !.pm = safe_pct(arg.m, arg.d)]
    /\ applied' = TRUE
    /\ UNCHANGED <<arg, pipeVars>>

ApplyNormalize ==
    /\ ~applied
    /\ arg.fn = "normalize"
    /\ LET total == arg.bad + arg.ok + arg.good
       IN  ret' = [ret EXCEPT !.Bad = NormValue(arg.bad, total),
                              !.Acceptable = NormValue(arg.ok, total),
                              !.Good = NormValue(arg.good, total)]
    /\ applied' = TRUE
    /\ UNCHANGED <<arg, pipeVars>>

NextPct == ApplySafePct \/ ApplyNormalize

SpecPct == InitPct /\ [][NextPct]_vars

----------------------------------------------------------------------------
(* Properties *)

FlagOf(a, l) == IF l = "Bad" THEN a.bad ELSE IF l = "Acceptable" THEN a.ok ELSE a.good
Rank3(l) == IF l = "Bad" THEN 1 ELSE IF l = "Acceptable" THEN 2 ELSE 3

\* C1: for every triple of non-negative flags tri_label answers Unknown
\* exactly when the three are 0; otherwise it answers a label whose flag is
\* the maximum, and no label before it in the order Bad, Acceptable, Good
\* has the maximum too (so bad=2, acceptable=2, good=1 gives Bad).
C1_TriLabel ==
    applied =>
        /\ ret \in {"Bad", "Acceptable", "Good", "Unknown"}
        /\ (ret = "Unknown") <=> (arg.bad = 0 /\ arg.ok = 0 /\ arg.good = 0)
        /\ ret # "Unknown" =>
              /\ \A l \in {"Bad", "Acceptable", "Good"} : FlagOf(arg, l) <= FlagOf(arg, ret)
              /\ \A l \in {"Bad", "Acceptable", "Good"} :
                    Rank3(l) < Rank3(ret) => FlagOf(arg, l) < FlagOf(arg, ret)

C1_Witness ==
    applied /\ arg = [bad |-> 2, ok |-> 2, good |-> 1] /\ ret = "Bad"

\* C2: with refArea present, whatever optional columns are absent, no step
\* of the script raises.
C2_NeverRaises ==
    (csv_exists /\ "refArea" \in cols) => (pc # "raised" /\ ~out.raised)

IsIntCell(c) == c.k = "num" /\ c.h % 2 = 0

\* a raw cell that holds a number of -1 or less, as a number or as a str
RawNegative(c) ==
    \/ c.k = "num" /\ c.h <= -2
    \/ c.k = "str" /\ c.s # <<>> /\ Head(c.s) = "-" /\ ParseNum(c.s).k = "num"
       /\ ParseNum(c.s).h <= -2

Loaded == pc \in {"loaded", "mapped", "idle", "raised"}

\* C3 as stated: after load_data every flag present is a non-null integer
\* that is at least 0, whatever the raw value was.
C3_Original ==
    Loaded => \A i \in Idx(df) : \A c \in FlagSet \cap cols :
                 IsIntCell(df[i][c]) /\ df[i][c].h >= 0

\* C3: after load_data every flag present is a non-null integer; it is
\* negative exactly when the raw value is a number (or a numeric string) of
\* -1 or less, and 0 when the raw value is empty or does not parse.
C3_FlagsAreIntegers ==
    Loaded => \A i \in Idx(df) : \A c \in FlagSet \cap cols :
                 /\ IsIntCell(df[i][c])
                 /\ (df[i][c].h < 0) <=> RawNegative(raw[i][c])
                 /\ (raw[i][c].k = "nan" \/ raw[i][c] = StrCell(<<"x">>)) => df[i][c] = NumCell(0)

C3_Witness ==
    /\ Loaded
    /\ \E i \in Idx(df) :
          /\ raw[i]["light_bad"] = StrCell(<<"x">>) /\ df[i]["light_bad"] = NumCell(0)
          /\ raw[i]["parks_acceptable"] = NaNCell /\ df[i]["parks_acceptable"] = NumCell(0)
          /\ raw[i]["parks_good"] = NumCell(3) /\ df[i]["parks_good"] = NumCell(2)
          /\ raw[i]["light_good"] = StrCell(<<"1">>) /\ df[i]["light_good"] = NumCell(2)

PctInRange(rows) ==
    \A i \in Idx(rows) :
        /\ 0 <= rows[i].parks_pct /\ rows[i].parks_pct <= 1000
        /\ rows[i].parks <= rows[i].towns

\* C4 as stated: for every table and selection every row of the ranking has
\* 0 <= parks_pct <= 100 and parks <= towns.
C4_Original ==
    out.rank.kind = "chart" => PctInRange(out.rank.rows)

\* C4: when every parks_exist of the loaded table is 0 or 1, every row of
\* the ranking has 0 <= parks_pct <= 100 and parks <= towns.
C4_PctInRange ==
    (out.rank.kind = "chart" /\ \A i \in Idx(df) : df[i].parks_exist \in {NumCell(0), NumCell(2)})
        => PctInRange(out.rank.rows)

C4_Witness ==
    /\ out.rank.kind = "chart"
    /\ \A i \in Idx(df) : df[i].parks_exist \in {NumCell(0), NumCell(2)}
    /\ \E i \in Idx(out.rank.rows) :
          /\ out.rank.rows[i].towns = 2
          /\ out.rank.rows[i].parks = 1
          /\ out.rank.rows[i].parks_pct = 500

\* C5: without the refArea column load_data reports the error and the
\* script stops: nothing is loaded, mapped or aggregated.
C5_MissingRefAreaStops ==
    (csv_exists /\ "refArea" \notin cols /\ pc # "start") =>
        /\ pc = "stopped"
        /\ out.error = "Column 'refArea' is required"
        /\ df = <<>> /\ towns_map = <<>> /\ ALL_GOVS = <<>>
        /\ ~out.ran /\ out.kpi = NoKpi /\ out.rank = NoRank /\ out.cond = NoCond

C5_Witness ==
    csv_exists /\ "refArea" \notin cols /\ "Town" \in cols /\ raw # <<>> /\ pc = "stopped"

\* the AreaShort of the selected areas at level Governorate
ShortOfSelected ==
    { df[i].AreaShort.s : i \in { j \in Idx(df) : /\ df[j].Level = "Governorate"
                                                  /\ df[j].Area.s \in sel_areas } }

\* the governorates of the towns of the Town Geo Mapping
MappedGovs ==
    { towns_map[i].Governorate.s : i \in { j \in Idx(towns_map) : IsStr(towns_map[j].Governorate) } }

RankedGovs == { out.rank.rows[i].Governorate : i \in Idx(out.rank.rows) }

EmptyPlaceholders ==
    out.fdf = <<>> =>
        /\ ~out.raised
        /\ out.kpi.towns = 0 /\ ~out.kpi.shown
        /\ out.cond.kind = "info" /\ out.cond.bars = {}

C7_Original ==
    applied =>
        /\ (arg.fn = "safe_pct" /\ arg.d = 0) => ret.pn = 0
        /\ (arg.fn = "safe_pct" /\ arg.d > 0 /\ arg.n = 0) => ret.pn = 0
        /\ (arg.fn = "safe_pct" /\ arg.d > 0 /\ arg.n <= arg.m) => ret.pn <= ret.pm
        /\ (arg.fn = "normalize" /\ arg.bad + arg.ok + arg.good = 0)
              => (ret.Bad = 0 /\ ret.Acceptable = 0 /\ ret.Good = 0)

\* C7: safe_pct(n, 0) = 0, safe_pct(0, d) = 0 for d > 0, safe_pct does not
\* decrease in n for d > 0, and a normalized group whose three sums total 0
\* is divided by 1: each category gets 100 times its sum, which is 0% for
\* all three exactly when the three sums are 0.
C7_SafeDivision ==
    applied =>
        /\ (arg.fn = "safe_pct" /\ arg.d = 0) => ret.pn = 0
        /\ (arg.fn = "safe_pct" /\ arg.d > 0 /\ arg.n = 0) => ret.pn = 0
        /\ (arg.fn = "safe_pct" /\ arg.d > 0 /\ arg.n <= arg.m) => ret.pn <= ret.pm
        /\ (arg.fn = "normalize" /\ arg.bad + arg.ok + arg.good = 0)
              => /\ ret.Bad = 10000 * arg.bad
                 /\ ret.Acceptable = 10000 * arg.ok
                 /\ ret.Good = 10000 * arg.good
        /\ (arg.fn = "normalize" /\ arg.bad = 0 /\ arg.ok = 0 /\ arg.good = 0)
              => (ret.Bad = 0 /\ ret.Acceptable = 0 /\ ret.Good = 0)

C7_Witness ==
    /\ applied /\ arg.fn = "normalize"
    /\ arg.bad = 0 /\ arg.ok = 0 /\ arg.good = 0
    /\ ret.Bad = 0 /\ ret.Acceptable = 0 /\ ret.Good = 0

CachesKept ==
    pc \in {"mapped", "idle"} =>
        (df' = df /\ towns_map' = towns_map /\ ALL_GOVS' = ALL_GOVS)

\* C8: once built, df, towns_map and ALL_GOVS are left as they are by every
\* pass of the script, whatever the widgets are set to.
C8_CachesUnchanged == [][CachesKept]_vars

C8_Witness ==
    /\ pc = "idle" /\ out.ran /\ level = "District"
    /\ out.fdf # <<>> /\ Len(out.fdf) < Len(df)
    /\ towns_map # <<>> /\ out.rank.kind = "chart"

\* the last "/"-separated segment of s, underscores as spaces
IsLastSegment(s, t) ==
    /\ Len(t) <= Len(s)
    /\ \A j \in 1..Len(t) :
          /\ s[Len(s) - Len(t) + j] # "/"
          /\ t[j] = IF s[Len(s) - Len(t) + j] = "_" THEN " " ELSE s[Len(s) - Len(t) + j]
    /\ (Len(t) < Len(s) => s[Len(s) - Len(t)] = "/")

HasWord(t, w) ==
    \E i \in 1..(Len(t) - Len(w) + 1) : \A j \in 1..Len(w) : t[i + j - 1] = w[j]

\* C9: the Level of a raw area reference is Governorate, District or Other:
\* Other when the reference is not a str; otherwise Governorate when its last
\* segment (underscores as spaces) contains "Governorate", District when it
\* contains "District" and not "Governorate", and Other when neither.
C9_Level ==
    applied =>
        /\ ret.Level \in {"Governorate", "District", "Other"}
        /\ ~IsStr(arg) => (ret.Level = "Other" /\ ret.Area = arg)
        /\ IsStr(arg) =>
              /\ IsStr(ret.Area)
              /\ IsLastSegment(arg.s, ret.Area.s)
              /\ ret.Level = IF HasWord(ret.Area.s, GovernorateW) THEN "Governorate"
                             ELSE IF HasWord(ret.Area.s, DistrictW) THEN "District"
                             ELSE "Other"

C9_Witness ==
    /\ applied /\ IsStr(arg)
    /\ HasWord(arg.s, GovernorateW) /\ HasWord(arg.s, <<"/">>)
    /\ ret.Level = "District"

=============================================================================
